---- MODULE Spec2Model ----
(***************************************************************************)
(* ValoHub backend: the in-memory wishlist store (db.wishlist, user ->     *)
(* {region, items}) and its reverse index (db.skinSubscriptions, skinId -> *)
(* Set of "user:region:source" keys), as kept by the Express route         *)
(* handlers.  The repository holds two entry points with the same routes:  *)
(* src/unnamed/part_000 and src/server.js.  `program` says which of the    *)
(* two is the running process.  A handler has no await, so Node runs it to *)
(* completion: each handler is an operator from the store and the request  *)
(* to an outcome [wishlist, skinSubscriptions, res] (the store it leaves   *)
(* and the response it sends), and one atomic action that commits it.      *)
(*                                                                         *)
(* A JavaScript string is a sequence of symbols; ":" and "/" are symbols   *)
(* of their own and a region or source name is one symbol, so that         *)
(* template literals are concatenations and split(':') really splits.      *)
(* process.env is written by nobody and read by the worker routes on every *)
(* request: it is an input of those handlers (env), not a variable.        *)
(* Not modelled: skinName, createdAt/updatedAt/addedAt (no handler reads   *)
(* them), and the insertion order of Map and Set.                          *)
(***************************************************************************)
EXTENDS Naturals, Sequences, FiniteSets, TLC

VARIABLES
  program,            \* which entry point runs: "part_000" or "server"
  wishlist,           \* db.wishlist: Map anonUserId -> [region, items]
  skinSubscriptions   \* db.skinSubscriptions: Map skinId -> Set of keys

vars == <<program, wishlist, skinSubscriptions>>

----------------------------------------------------------------------------
(* Bounds of the model *)

\* most items held by all users together, and most keys in the reverse index
\* (an add that would exceed either is not issued)
MaxTotal == 3

----------------------------------------------------------------------------
(* JavaScript values *)

Undefined == <<"undefined">>     \* the value undefined; `${undefined}` prints it
Str(s) == <<s>>
Falsy(v) == v = Undefined \/ v = <<>>

\* String.prototype.toUpperCase, symbol by symbol
UpperSym(c) ==
  CASE c = "tr" -> "TR"
    [] c = "Tr" -> "TR"
    [] c = "eu" -> "EU"
    [] OTHER -> c
toUpperCase(s) == [i \in 1..Len(s) |-> UpperSym(s[i])]

\* String.prototype.split(sep): the pieces between the separators
RECURSIVE SplitFrom(_, _, _)
SplitFrom(s, sep, cur) ==
  IF s = <<>> THEN <<cur>>
  ELSE IF Head(s) = sep THEN <<cur>> \o SplitFrom(Tail(s), sep, <<>>)
  ELSE SplitFrom(Tail(s), sep, Append(cur, Head(s)))
split(s, sep) == SplitFrom(s, sep, <<>>)

\* destructuring [a, b, c] = array: a missing element is undefined
At(arr, i) == IF i <= Len(arr) THEN arr[i] ELSE Undefined

\* Map.set / Map.delete on a map kept as a function
MapSet(m, k, v) == [x \in DOMAIN m \cup {k} |-> IF x = k THEN v ELSE m[x]]
MapDelete(m, k) == [x \in DOMAIN m \ {k} |-> m[x]]
EmptyMap == [x \in {} |-> {}]

----------------------------------------------------------------------------
(* Helpers of both files *)

regions == {Str("TR"), Str("EU"), Str("NA"), Str("AP"), Str("KR"), Str("BR"), Str("LATAM")}

validSources == {Str("store"), Str("night"), Str("bundle")}

\* uuidv4() is random: any id of the generated shape may come out, one that
\* the forward index holds (anon_1 is also an id clients name in paths) or not
generateAnonUserId == {Str("anon_1"), Str("anon_2")}

\* normalizeRegion without the upper-casing and the membership test
normalizeRegionUnchecked(region) == IF Falsy(region) THEN Str("EU") ELSE region

normalizeRegion(region) ==
  LET upper == toUpperCase(IF Falsy(region) THEN Str("EU") ELSE region)
  IN  IF upper \in regions THEN upper ELSE Str("EU")

generateTopicName(region, source, skinId) ==
  <<"valohub", "/">> \o region \o <<"/">> \o source \o <<"/">> \o skinId

\* `${anonUserId}:${region}:${source}`
SubKey(anonUserId, region, source) ==
  anonUserId \o <<":">> \o region \o <<":">> \o source

----------------------------------------------------------------------------
(* Responses and outcomes *)

Response(status, body) == [status |-> status, body |-> body]

\* what a handler leaves behind: the two maps of db and the response
Outcome(w, subs, res) == [wishlist |-> w, skinSubscriptions |-> subs, res |-> res]

\* a handler that returns without touching db
Reply(status, body) == Outcome(wishlist, skinSubscriptions, Response(status, body))

\* what a client may send
PathUserIds == {Str("anon_1"), <<"anon_1", ":", "EU">>}
PathSkinIds == {Str("s1")}
BodySkinIds == PathSkinIds \cup {Undefined}
RegionInputs == {Undefined, Str("tr"), Str("zz")}
PathRegions == {Str("tr"), Str("EU")}
SourceInputs == {Undefined, Str("night"), <<"EU", ":", "store">>}
FilterInputs == {Undefined, Str("night")}
ApiKeyInputs == {Undefined, Str("k")}
\* process.env as deployed: NODE_ENV and the shared secret, set or not
Envs == {[NODE_ENV |-> Str("development"), WORKER_API_KEY |-> Undefined],
         [NODE_ENV |-> Str("production"), WORKER_API_KEY |-> Undefined],
         [NODE_ENV |-> Str("production"), WORKER_API_KEY |-> Str("k")]}

TotalItems(w) ==
  LET RECURSIVE Sum(_)
      Sum(S) == IF S = {} THEN 0
                ELSE LET u == CHOOSE x \in S : TRUE
                     IN  Len(w[u].items) + Sum(S \ {u})
  IN  Sum(DOMAIN w)

Init ==
  /\ program \in {"part_000", "server"}
  /\ wishlist = EmptyMap
  /\ skinSubscriptions = EmptyMap

----------------------------------------------------------------------------
(* src/unnamed/part_000: route handlers *)

\* GET /health
GetHealth ==
  Reply(200, [status |-> Str("ok"),
              wishlistCount |-> Cardinality(DOMAIN wishlist),
              subscriptionCount |-> Cardinality(DOMAIN skinSubscriptions)])

\* POST /api/user/register; anonUserId is what generateAnonUserId() returned
PostUserRegister(region, anonUserId) ==
  LET normalizedRegion == normalizeRegion(region)
  IN  Outcome(MapSet(wishlist, anonUserId, [region |-> normalizedRegion, items |-> <<>>]),
              skinSubscriptions,
              Response(200, [anonUserId |-> anonUserId, region |-> normalizedRegion]))

\* the body of userData.items.forEach in PUT /api/user/:anonUserId/region
RelocateItem(subs, item, anonUserId, oldRegion, newRegion) ==
  LET removed == IF item.skinId \in DOMAIN subs
                 THEN MapSet(subs, item.skinId,
                             subs[item.skinId] \ {SubKey(anonUserId, oldRegion, item.source)})
                 ELSE subs
      ensured == IF item.skinId \notin DOMAIN removed
                 THEN MapSet(removed, item.skinId, {})
                 ELSE removed
  IN  MapSet(ensured, item.skinId,
             ensured[item.skinId] \cup {SubKey(anonUserId, newRegion, item.source)})

RECURSIVE RelocateItems(_, _, _, _, _)
RelocateItems(subs, items, anonUserId, oldRegion, newRegion) ==
  IF items = <<>> THEN subs
  ELSE RelocateItems(RelocateItem(subs, Head(items), anonUserId, oldRegion, newRegion),
                     Tail(items), anonUserId, oldRegion, newRegion)

\* PutUserRegion with the get-or-create of POST /api/wishlist in place of the 404
PutUserRegionCreates(anonUserId, region) ==
  LET userData == IF anonUserId \in DOMAIN wishlist THEN wishlist[anonUserId]
                  ELSE [region |-> Str("EU"), items |-> <<>>]
      newRegion == normalizeRegion(region)
  IN  Outcome(MapSet(wishlist, anonUserId, [userData EXCEPT !.region = newRegion]),
              RelocateItems(skinSubscriptions, userData.items, anonUserId,
                            userData.region, newRegion),
              Response(200, [region |-> newRegion]))

\* PUT /api/user/:anonUserId/region
PutUserRegion(anonUserId, region) ==
  IF anonUserId \notin DOMAIN wishlist
  THEN Reply(404, [error |-> Str("User not found")])
  ELSE LET userData == wishlist[anonUserId]
           oldRegion == userData.region
           newRegion == normalizeRegion(region)
       IN  Outcome(MapSet(wishlist, anonUserId, [userData EXCEPT !.region = newRegion]),
                   RelocateItems(skinSubscriptions, userData.items, anonUserId,
                                 oldRegion, newRegion),
                   Response(200, [region |-> newRegion]))

\* const normalizedSource = validSources.includes(source) ? source : 'store'
\* (source = 'store' is the destructuring default of an absent body field)
normalizedSource(source) ==
  LET given == IF source = Undefined THEN Str("store") ELSE source
  IN  IF given \in validSources THEN given ELSE Str("store")

\* items.some(item => item.skinId === skinId && item.source === source)
Holds(items, skinId, source) ==
  \E i \in 1..Len(items) : items[i].skinId = skinId /\ items[i].source = source

\* if (!db.skinSubscriptions.has(skinId)) set(skinId, new Set()); get(skinId).add(key)
InsertSub(subs, skinId, key) ==
  LET ensured == IF skinId \notin DOMAIN subs THEN MapSet(subs, skinId, {}) ELSE subs
  IN  MapSet(ensured, skinId, ensured[skinId] \cup {key})

\* POST /api/wishlist/:anonUserId
PostWishlist(anonUserId, skinId, source) ==
  LET src == normalizedSource(source)
      userData == IF anonUserId \in DOMAIN wishlist THEN wishlist[anonUserId]
                  ELSE [region |-> Str("EU"), items |-> <<>>]
      topic == generateTopicName(userData.region, src, skinId)
  IN  IF Holds(userData.items, skinId, src)
      THEN Outcome(MapSet(wishlist, anonUserId, userData), skinSubscriptions,
                   Response(200, [message |-> Str("Already in wishlist"), topic |-> topic]))
      ELSE Outcome(MapSet(wishlist, anonUserId,
                          [userData EXCEPT !.items =
                              Append(@, [skinId |-> skinId, source |-> src])]),
                   InsertSub(skinSubscriptions, skinId,
                             SubKey(anonUserId, userData.region, src)),
                   Response(200, [message |-> Str("Subscribe to"), topic |-> topic]))

\* items.filter(item => !(item.skinId === skinId && item.source === source))
FilterOut(items, skinId, source) ==
  SelectSeq(items, LAMBDA item : ~(item.skinId = skinId /\ item.source = source))

\* if (subs) { subs.delete(key); if (subs.size === 0) db.skinSubscriptions.delete(skinId) }
RemoveSub(subs, skinId, key) ==
  IF skinId \in DOMAIN subs
  THEN LET left == subs[skinId] \ {key}
       IN  IF Cardinality(left) = 0 THEN MapDelete(subs, skinId)
           ELSE MapSet(subs, skinId, left)
  ELSE subs

\* DeleteWishlist dropping the record of a user whose last item it removed
DeleteWishlistDropsUser(anonUserId, skinId, querySource) ==
  LET source == IF querySource = Undefined THEN Str("store") ELSE querySource
  IN  IF anonUserId \notin DOMAIN wishlist
      THEN Reply(404, [error |-> Str("User not found")])
      ELSE LET userData == wishlist[anonUserId]
               kept == FilterOut(userData.items, skinId, source)
           IN  IF Len(kept) = Len(userData.items)
               THEN Reply(200, [message |-> Str("Item not found in wishlist")])
               ELSE Outcome(IF kept = <<>> THEN MapDelete(wishlist, anonUserId)
                            ELSE MapSet(wishlist, anonUserId,
                                        [userData EXCEPT !.items = kept]),
                            RemoveSub(skinSubscriptions, skinId,
                                      SubKey(anonUserId, userData.region, source)),
                            Response(200, [message |-> Str("Removed from wishlist")]))

\* DELETE /api/wishlist/:anonUserId/:skinId
DeleteWishlist(anonUserId, skinId, querySource) ==
  LET source == IF querySource = Undefined THEN Str("store") ELSE querySource
  IN  IF anonUserId \notin DOMAIN wishlist
      THEN Reply(404, [error |-> Str("User not found")])
      ELSE LET userData == wishlist[anonUserId]
               kept == FilterOut(userData.items, skinId, source)
           IN  IF Len(kept) = Len(userData.items)
               THEN Reply(200, [message |-> Str("Item not found in wishlist")])
               ELSE Outcome(MapSet(wishlist, anonUserId, [userData EXCEPT !.items = kept]),
                            RemoveSub(skinSubscriptions, skinId,
                                      SubKey(anonUserId, userData.region, source)),
                            Response(200, [message |-> Str("Removed from wishlist")]))

\* userData.items.map(item => generateTopicName(region, item.source, item.skinId))
TopicsOf(userData) ==
  [i \in 1..Len(userData.items) |->
      generateTopicName(userData.region, userData.items[i].source, userData.items[i].skinId)]

\* GetWishlist storing the default record it answers with for an unknown user
GetWishlistCreates(anonUserId) ==
  LET userData == IF anonUserId \in DOMAIN wishlist THEN wishlist[anonUserId]
                  ELSE [region |-> Str("EU"), items |-> <<>>]
  IN  Outcome(MapSet(wishlist, anonUserId, userData), skinSubscriptions,
              Response(200, [region |-> userData.region, items |-> userData.items,
                             topics |-> TopicsOf(userData)]))

\* GET /api/wishlist/:anonUserId
GetWishlist(anonUserId) ==
  IF anonUserId \notin DOMAIN wishlist
  THEN Reply(200, [region |-> Str("EU"), items |-> <<>>, topics |-> <<>>])
  ELSE LET userData == wishlist[anonUserId]
       IN  Reply(200, [region |-> userData.region, items |-> userData.items,
                       topics |-> TopicsOf(userData)])

\* apiKey !== process.env.WORKER_API_KEY && process.env.NODE_ENV === 'production'
Unauthorized(apiKey, env) ==
  apiKey # env.WORKER_API_KEY /\ env.NODE_ENV = Str("production")

\* const [anonUserId, region, source] = sub.split(':'), and the record built of it
ParseSub(sub, skinId) ==
  LET parts == split(sub, ":")
  IN  [anonUserId |-> At(parts, 1), region |-> At(parts, 2), source |-> At(parts, 3),
       topic |-> generateTopicName(At(parts, 2), At(parts, 3), skinId)]

\* Array.from(subs).map(...): one record per key of the Set (kept by key, so that
\* two keys parsed to equal records stay two records)
SubscriptionsOf(subs, skinId) == [sub \in subs |-> ParseSub(sub, skinId)]

\* GET /api/internal/subscriptions/:skinId
GetSubscriptions(skinId, apiKey, env) ==
  IF Unauthorized(apiKey, env)
  THEN Reply(401, [error |-> Str("Unauthorized")])
  ELSE IF skinId \notin DOMAIN skinSubscriptions
          \/ Cardinality(skinSubscriptions[skinId]) = 0
  THEN Reply(200, [skinId |-> skinId, subscriptions |-> EmptyMap])
  ELSE Reply(200, [skinId |-> skinId,
                   subscriptions |-> SubscriptionsOf(skinSubscriptions[skinId], skinId)])

\* activeSkins of GET /api/internal/active-skins: skinId -> Set of region, over the
\* entries the source filter lets through
ActiveSkins(subs, source) ==
  LET Match(skinId) == {sub \in subs[skinId] :
                          Falsy(source) \/ At(split(sub, ":"), 3) = source}
      active == {skinId \in DOMAIN subs : Match(skinId) # {}}
  IN  [skinId \in active |-> {At(split(sub, ":"), 2) : sub \in Match(skinId)}]

\* GET /api/internal/active-skins
GetActiveSkins(source, apiKey, env) ==
  IF Unauthorized(apiKey, env)
  THEN Reply(401, [error |-> Str("Unauthorized")])
  ELSE LET skins == ActiveSkins(skinSubscriptions, source)
       IN  Reply(200, [source |-> IF Falsy(source) THEN Str("all") ELSE source,
                       count |-> Cardinality(DOMAIN skins),
                       skins |-> skins])

\* topics of GET /api/internal/topics-by-region/:region
TopicsByRegion(subs, normalizedRegion, source) ==
  UNION {{generateTopicName(normalizedRegion, At(split(sub, ":"), 3), skinId) :
            sub \in {s \in subs[skinId] :
                       /\ At(split(s, ":"), 2) = normalizedRegion
                       /\ (Falsy(source) \/ At(split(s, ":"), 3) = source)}} :
         skinId \in DOMAIN subs}

\* GET /api/internal/topics-by-region/:region
GetTopicsByRegion(region, source, apiKey, env) ==
  IF Unauthorized(apiKey, env)
  THEN Reply(401, [error |-> Str("Unauthorized")])
  ELSE LET normalizedRegion == normalizeRegion(region)
       IN  Reply(200, [region |-> normalizedRegion,
                       source |-> IF Falsy(source) THEN Str("all") ELSE source,
                       topics |-> TopicsByRegion(skinSubscriptions, normalizedRegion,
                                                 source)])

\* GET /api/stats
GetStats ==
  LET held == UNION {{<<u, i>> : i \in 1..Len(wishlist[u].items)} : u \in DOMAIN wishlist}
      sources == validSources \cup {wishlist[p[1]].items[p[2]].source : p \in held}
      bySource == [s \in sources |->
                     Cardinality({p \in held : wishlist[p[1]].items[p[2]].source = s})]
      byRegion == [r \in {wishlist[u].region : u \in DOMAIN wishlist} |->
                     Cardinality({u \in DOMAIN wishlist : wishlist[u].region = r})]
  IN  Reply(200, [users |-> Cardinality(DOMAIN wishlist),
                  totalWishlistItems |-> Cardinality(held),
                  uniqueSkins |-> Cardinality(DOMAIN skinSubscriptions),
                  bySource |-> bySource, byRegion |-> byRegion])

----------------------------------------------------------------------------
(* src/server.js: route handlers.  normalizeRegion and generateAnonUserId are *)
(* the same functions in both files.                                          *)

generateTopic(region, source, skinId) ==
  <<"valohub", "/">> \o region \o <<"/">> \o source \o <<"/">> \o skinId

\* GET /
SrvGetRoot == Reply(200, Str("OK"))

\* GET /health
SrvGetHealth ==
  Reply(200, [status |-> Str("ok"),
              users |-> Cardinality(DOMAIN wishlist),
              skins |-> Cardinality(DOMAIN skinSubscriptions)])

\* POST /api/user/register
SrvPostUserRegister(bodyRegion, anonUserId) ==
  LET region == normalizeRegion(bodyRegion)
  IN  Outcome(MapSet(wishlist, anonUserId, [region |-> region, items |-> <<>>]),
              skinSubscriptions,
              Response(200, [anonUserId |-> anonUserId, region |-> region]))

\* the body of user.items.forEach in PUT /api/user/:anonUserId/region
SrvRelocateItem(subs, item, anonUserId, oldRegion, region) ==
  IF item.skinId \notin DOMAIN subs THEN subs
  ELSE MapSet(subs, item.skinId,
              (subs[item.skinId] \ {SubKey(anonUserId, oldRegion, item.source)})
                 \cup {SubKey(anonUserId, region, item.source)})

RECURSIVE SrvRelocateItems(_, _, _, _, _)
SrvRelocateItems(subs, items, anonUserId, oldRegion, region) ==
  IF items = <<>> THEN subs
  ELSE SrvRelocateItems(SrvRelocateItem(subs, Head(items), anonUserId, oldRegion, region),
                        Tail(items), anonUserId, oldRegion, region)

\* PUT /api/user/:anonUserId/region
SrvPutUserRegion(anonUserId, bodyRegion) ==
  LET region == normalizeRegion(bodyRegion)
  IN  IF anonUserId \notin DOMAIN wishlist
      THEN Reply(404, [error |-> Str("User not found")])
      ELSE LET user == wishlist[anonUserId]
               oldRegion == user.region
           IN  Outcome(MapSet(wishlist, anonUserId, [user EXCEPT !.region = region]),
                       SrvRelocateItems(skinSubscriptions, user.items, anonUserId,
                                        oldRegion, region),
                       Response(200, [region |-> region]))

\* const { skinId, skinName, source = "store" } = req.body
SrvBodySource(source) == IF source = Undefined THEN Str("store") ELSE source

\* POST /api/wishlist/:anonUserId
SrvPostWishlist(anonUserId, skinId, bodySource) ==
  LET source == SrvBodySource(bodySource)
      user == IF anonUserId \in DOMAIN wishlist THEN wishlist[anonUserId]
              ELSE [region |-> Str("EU"), items |-> <<>>]
      res == Response(200, [success |-> TRUE,
                            topic |-> generateTopic(user.region, source, skinId)])
  IN  IF Falsy(skinId)
      THEN Reply(400, [error |-> Str("skinId required")])
      ELSE IF Holds(user.items, skinId, source)
      THEN Outcome(MapSet(wishlist, anonUserId, user), skinSubscriptions, res)
      ELSE Outcome(MapSet(wishlist, anonUserId,
                          [user EXCEPT !.items =
                              Append(@, [skinId |-> skinId, source |-> source])]),
                   InsertSub(skinSubscriptions, skinId,
                             SubKey(anonUserId, user.region, source)),
                   res)

\* DELETE /api/wishlist/:anonUserId/:skinId
SrvDeleteWishlist(anonUserId, skinId, querySource) ==
  LET source == IF Falsy(querySource) THEN Str("store") ELSE querySource
  IN  IF anonUserId \notin DOMAIN wishlist
      THEN Reply(404, [error |-> Str("User not found")])
      ELSE LET user == wishlist[anonUserId]
           IN  Outcome(MapSet(wishlist, anonUserId,
                              [user EXCEPT !.items = FilterOut(user.items, skinId, source)]),
                       RemoveSub(skinSubscriptions, skinId,
                                 SubKey(anonUserId, user.region, source)),
                       Response(200, [success |-> TRUE]))

\* GET /api/wishlist/:anonUserId
SrvGetWishlist(anonUserId) ==
  IF anonUserId \notin DOMAIN wishlist
  THEN Reply(200, [region |-> Str("EU"), items |-> <<>>, topics |-> <<>>])
  ELSE LET user == wishlist[anonUserId]
       IN  Reply(200, [region |-> user.region, items |-> user.items,
                       topics |-> [i \in 1..Len(user.items) |->
                                     generateTopic(user.region, user.items[i].source,
                                                   user.items[i].skinId)]])

\* checkWorkerKey(req, res): TRUE when the request may go on
checkWorkerKey(apiKey, env) ==
  ~(env.NODE_ENV = Str("production") /\ apiKey # env.WORKER_API_KEY)

\* GET /api/internal/subscriptions/:skinId
SrvGetSubscriptions(skinId, apiKey, env) ==
  IF ~checkWorkerKey(apiKey, env)
  THEN Reply(401, [error |-> Str("Unauthorized")])
  ELSE IF skinId \notin DOMAIN skinSubscriptions
  THEN Reply(200, [subscriptions |-> EmptyMap])
  ELSE Reply(200, [subscriptions |->
          [sub \in skinSubscriptions[skinId] |->
             LET parts == split(sub, ":")
             IN  [anonUserId |-> At(parts, 1), region |-> At(parts, 2),
                  source |-> At(parts, 3),
                  topic |-> generateTopic(At(parts, 2), At(parts, 3), skinId)]]])

\* map of GET /api/internal/active-skins: skinId -> Set of region (no source filter)
SrvActiveSkins(subs) ==
  [skinId \in {k \in DOMAIN subs : subs[k] # {}} |->
     {At(split(sub, ":"), 2) : sub \in subs[skinId]}]

\* GET /api/internal/active-skins
SrvGetActiveSkins(querySource, apiKey, env) ==
  IF ~checkWorkerKey(apiKey, env)
  THEN Reply(401, [error |-> Str("Unauthorized")])
  ELSE LET skins == SrvActiveSkins(skinSubscriptions)
       IN  Reply(200, [count |-> Cardinality(DOMAIN skins), skins |-> skins])

----------------------------------------------------------------------------
(* The process: any request may arrive at any time; its handler runs to     *)
(* completion and leaves db as its outcome says.                            *)

Commit(out) ==
  /\ wishlist' = out.wishlist
  /\ skinSubscriptions' = out.skinSubscriptions
  /\ UNCHANGED program

TotalKeys(subs) ==
  LET RECURSIVE Sum(_)
      Sum(S) == IF S = {} THEN 0
                ELSE LET k == CHOOSE x \in S : TRUE
                     IN  Cardinality(subs[k]) + Sum(S \ {k})
  IN  Sum(DOMAIN subs)

Bounded(out) ==
  /\ TotalItems(out.wishlist) <= MaxTotal
  /\ TotalKeys(out.skinSubscriptions) <= MaxTotal

\* a request the model issues: one whose outcome stays within the bounds
Issue(out) == Bounded(out) /\ Commit(out)

OnGetHealth == program = "part_000" /\ Commit(GetHealth)
OnPostUserRegister ==
  /\ program = "part_000"
  /\ \E region \in RegionInputs, id \in generateAnonUserId :
        Commit(PostUserRegister(region, id))
OnPutUserRegion ==
  /\ program = "part_000"
  /\ \E u \in PathUserIds, region \in RegionInputs : Commit(PutUserRegion(u, region))
OnPostWishlist ==
  /\ program = "part_000"
  /\ \E u \in PathUserIds, s \in BodySkinIds, source \in SourceInputs :
        Issue(PostWishlist(u, s, source))
OnDeleteWishlist ==
  /\ program = "part_000"
  /\ \E u \in PathUserIds, s \in PathSkinIds, source \in SourceInputs :
        Commit(DeleteWishlist(u, s, source))
OnGetWishlist == program = "part_000" /\ \E u \in PathUserIds : Commit(GetWishlist(u))
OnGetSubscriptions ==
  /\ program = "part_000"
  /\ \E s \in PathSkinIds, k \in ApiKeyInputs, e \in Envs :
        Commit(GetSubscriptions(s, k, e))
OnGetActiveSkins ==
  /\ program = "part_000"
  /\ \E f \in FilterInputs, k \in ApiKeyInputs, e \in Envs :
        Commit(GetActiveSkins(f, k, e))
OnGetTopicsByRegion ==
  /\ program = "part_000"
  /\ \E r \in PathRegions, f \in FilterInputs, k \in ApiKeyInputs, e \in Envs :
        Commit(GetTopicsByRegion(r, f, k, e))
OnGetStats == program = "part_000" /\ Commit(GetStats)

OnSrvGetRoot == program = "server" /\ Commit(SrvGetRoot)
OnSrvGetHealth == program = "server" /\ Commit(SrvGetHealth)
OnSrvPostUserRegister ==
  /\ program = "server"
  /\ \E region \in RegionInputs, id \in generateAnonUserId :
        Commit(SrvPostUserRegister(region, id))
OnSrvPutUserRegion ==
  /\ program = "server"
  /\ \E u \in PathUserIds, region \in RegionInputs : Commit(SrvPutUserRegion(u, region))
OnSrvPostWishlist ==
  /\ program = "server"
  /\ \E u \in PathUserIds, s \in BodySkinIds, source \in SourceInputs :
        Issue(SrvPostWishlist(u, s, source))
OnSrvDeleteWishlist ==
  /\ program = "server"
  /\ \E u \in PathUserIds, s \in PathSkinIds, source \in SourceInputs :
        Commit(SrvDeleteWishlist(u, s, source))
OnSrvGetWishlist == program = "server" /\ \E u \in PathUserIds : Commit(SrvGetWishlist(u))
OnSrvGetSubscriptions ==
  /\ program = "server"
  /\ \E s \in PathSkinIds, k \in ApiKeyInputs, e \in Envs :
        Commit(SrvGetSubscriptions(s, k, e))
OnSrvGetActiveSkins ==
  /\ program = "server"
  /\ \E f \in FilterInputs, k \in ApiKeyInputs, e \in Envs :
        Commit(SrvGetActiveSkins(f, k, e))

Next ==
  \/ OnGetHealth
  \/ OnPostUserRegister
  \/ OnPutUserRegion
  \/ OnPostWishlist
  \/ OnDeleteWishlist
  \/ OnGetWishlist
  \/ OnGetSubscriptions
  \/ OnGetActiveSkins
  \/ OnGetTopicsByRegion
  \/ OnGetStats
  \/ OnSrvGetRoot
  \/ OnSrvGetHealth
  \/ OnSrvPostUserRegister
  \/ OnSrvPutUserRegion
  \/ OnSrvPostWishlist
  \/ OnSrvDeleteWishlist
  \/ OnSrvGetWishlist
  \/ OnSrvGetSubscriptions
  \/ OnSrvGetActiveSkins

Spec == Init /\ [][Next]_vars

----------------------------------------------------------------------------
(* The operations of the store, whichever program runs *)

RegisterUser(region, anonUserId) ==
  IF program = "part_000" THEN PostUserRegister(region, anonUserId)
  ELSE SrvPostUserRegister(region, anonUserId)

SetUserRegion(anonUserId, region) ==
  IF program = "part_000" THEN PutUserRegion(anonUserId, region)
  ELSE SrvPutUserRegion(anonUserId, region)

AddItem(anonUserId, skinId, source) ==
  IF program = "part_000" THEN PostWishlist(anonUserId, skinId, source)
  ELSE SrvPostWishlist(anonUserId, skinId, source)

RemoveItem(anonUserId, skinId, source) ==
  IF program = "part_000" THEN DeleteWishlist(anonUserId, skinId, source)
  ELSE SrvDeleteWishlist(anonUserId, skinId, source)

GetUser(anonUserId) ==
  IF program = "part_000" THEN GetWishlist(anonUserId) ELSE SrvGetWishlist(anonUserId)

QueryBySkin(skinId, apiKey, env) ==
  IF program = "part_000" THEN GetSubscriptions(skinId, apiKey, env)
  ELSE SrvGetSubscriptions(skinId, apiKey, env)

QueryAllActive(source, apiKey, env) ==
  IF program = "part_000" THEN GetActiveSkins(source, apiKey, env)
  ELSE SrvGetActiveSkins(source, apiKey, env)

\* the source AddItem stores for a body source
StoredSource(source) ==
  IF program = "part_000" THEN normalizedSource(source) ELSE SrvBodySource(source)

\* the source RemoveItem matches for a query source
MatchedSource(source) ==
  IF program = "part_000" THEN (IF source = Undefined THEN Str("store") ELSE source)
  ELSE (IF Falsy(source) THEN Str("store") ELSE source)

----------------------------------------------------------------------------
(* Vocabulary of the properties *)

ItemsOf(w, u) == {w[u].items[i] : i \in 1..Len(w[u].items)}
HasItem(w, u, skinId, source) ==
  u \in DOMAIN w /\ [skinId |-> skinId, source |-> source] \in ItemsOf(w, u)
Bucket(subs, skinId) == IF skinId \in DOMAIN subs THEN subs[skinId] ELSE {}
SkinsOf(w) == UNION {{it.skinId : it \in ItemsOf(w, u)} : u \in DOMAIN w}

\* the keys the items of w call for under skinId
LiveKeys(w, skinId) ==
  UNION {{SubKey(u, w[u].region, it.source) : it \in {x \in ItemsOf(w, u) : x.skinId = skinId}} :
         u \in DOMAIN w}

Mirrors(w, subs) ==
  \A skinId \in DOMAIN subs \cup SkinsOf(w) : Bucket(subs, skinId) = LiveKeys(w, skinId)

SameDb(out) == out.wishlist = wishlist /\ out.skinSubscriptions = skinSubscriptions

\* every source the running program can store in a key
AllSources == {StoredSource(s) : s \in SourceInputs} \cup
              (IF program = "part_000" THEN validSources ELSE {})

\* the keys that say: user u, a region other than r
StaleKeys(u, r) == {SubKey(u, r2, s) : r2 \in regions \ {r}, s \in AllSources}

----------------------------------------------------------------------------
(* C1..C10 *)

\* C1: dual-index consistency.  In every reachable state the bucket of each
\* skinId holds exactly the keys (U.id, U.region, S) of the items (skinId, S)
\* that users hold: every item has its entry and no entry is orphan or stale.
C1_DualIndexConsistent == Mirrors(wishlist, skinSubscriptions)

\* C2: whatever requests are in flight, no read returns a view in which a
\* wishlist item lacks its reverse-index entry or an entry lacks its item:
\* every item GetUser lists has its key in the index, and every record
\* QueryBySkin returns comes from a key some user's item calls for.
C2_ReadsSeeBothIndexes ==
  /\ \A u \in PathUserIds :
        LET view == GetUser(u).res.body
        IN  \A i \in 1..Len(view.items) :
               SubKey(u, view.region, view.items[i].source)
                  \in Bucket(skinSubscriptions, view.items[i].skinId)
  /\ \A skinId \in PathSkinIds, apiKey \in ApiKeyInputs, env \in Envs :
        LET res == QueryBySkin(skinId, apiKey, env).res
        IN  res.status = 200 =>
               \A sub \in DOMAIN res.body.subscriptions : sub \in LiveKeys(wishlist, skinId)

\* C3: after a successful SetUserRegion(U, r), with R2 the normalized r, the
\* bucket of every item (s, S) of U contains (U, R2, S) and no bucket holds an
\* entry of U with a region other than R2.
C3_RegionChangeConsistent ==
  \A u \in PathUserIds, r \in RegionInputs :
     LET out == SetUserRegion(u, r)
         R2 == normalizeRegion(r)
     IN  out.res.status = 200 =>
           /\ out.wishlist[u].region = R2
           /\ \A it \in ItemsOf(out.wishlist, u) :
                 SubKey(u, R2, it.source) \in Bucket(out.skinSubscriptions, it.skinId)
           /\ \A skinId \in DOMAIN out.skinSubscriptions :
                 out.skinSubscriptions[skinId] \cap StaleKeys(u, R2) = {}

\* C4: AddItem(U, s, src) when U already holds (s, normalized src) leaves both
\* indexes exactly as they were, and no user's list ever holds the same
\* (skinId, source) pair twice.
C4_IdempotentAdd ==
  /\ \A u \in PathUserIds, s \in BodySkinIds, src \in SourceInputs :
        HasItem(wishlist, u, s, normalizedSource(src)) => SameDb(AddItem(u, s, src))
  /\ \A u \in DOMAIN wishlist :
        \A i, j \in 1..Len(wishlist[u].items) :
           i # j => wishlist[u].items[i] # wishlist[u].items[j]

\* C5: no bucket of the reverse index is ever empty; and once RemoveItem has
\* removed an item of skinId s, the bucket of s exists exactly when some user
\* still holds an item of s.
C5_NoEmptyBuckets ==
  /\ \A skinId \in DOMAIN skinSubscriptions : skinSubscriptions[skinId] # {}
  /\ \A u \in PathUserIds, s \in PathSkinIds, src \in SourceInputs :
        HasItem(wishlist, u, s, MatchedSource(src)) =>
           LET out == RemoveItem(u, s, src)
           IN  s \in DOMAIN out.skinSubscriptions <=> s \in SkinsOf(out.wishlist)

\* C6: for every user U (ids with ":" included) and item (s, S) of U,
\* QueryBySkin(s) returns exactly one record (U.id, U.region, S,
\* Topic(U.region, S, s)), its topic being the one AddItem returns for the
\* tuple and the one GetUser lists; it returns no other record, and no record
\* at all for a skinId nobody holds.
C6_WorkerQueryRoundTrip ==
  \A s \in PathSkinIds, apiKey \in ApiKeyInputs, env \in Envs :
     LET res == QueryBySkin(s, apiKey, env).res
         recs == res.body.subscriptions
         Rec(u, S) == [anonUserId |-> u, region |-> wishlist[u].region, source |-> S,
                       topic |-> generateTopicName(wishlist[u].region, S, s)]
     IN  res.status = 200 =>
           /\ \A u \in DOMAIN wishlist :
                 \A i \in 1..Len(wishlist[u].items) :
                    LET it == wishlist[u].items[i]
                    IN  it.skinId = s =>
                          /\ Cardinality({k \in DOMAIN recs : recs[k] = Rec(u, it.source)}) = 1
                          /\ GetUser(u).res.body.topics[i] = Rec(u, it.source).topic
                          /\ \A src \in SourceInputs :
                                StoredSource(src) = it.source =>
                                   AddItem(u, s, src).res.body.topic = Rec(u, it.source).topic
           /\ \A k \in DOMAIN recs :
                 \E u \in DOMAIN wishlist :
                    \E it \in ItemsOf(wishlist, u) : it.skinId = s /\ recs[k] = Rec(u, it.source)
           /\ (s \notin SkinsOf(wishlist) => DOMAIN recs = {})

\* C7: SetUserRegion and RemoveItem on a userId the forward index does not hold
\* answer NotFound and leave the users and every bucket as they were.
C7_NotFoundLeavesState ==
  \A u \in PathUserIds \ DOMAIN wishlist :
     /\ \A r \in RegionInputs :
           LET out == SetUserRegion(u, r) IN out.res.status = 404 /\ SameDb(out)
     /\ \A s \in PathSkinIds, src \in SourceInputs :
           LET out == RemoveItem(u, s, src) IN out.res.status = 404 /\ SameDb(out)

\* reached: a user is unknown while another holds an item, and both calls on
\* the unknown id have answered 404
C7_Witness ==
  \E u \in PathUserIds \ DOMAIN wishlist :
     /\ \E v \in DOMAIN wishlist : wishlist[v].items # <<>>
     /\ skinSubscriptions # EmptyMap
     /\ SetUserRegion(u, Str("tr")).res.status = 404
     /\ RemoveItem(u, Str("s1"), Undefined).res.status = 404

\* C8: AddItem without a skinId is rejected with a validation error and leaves
\* both indexes unchanged, for known and unknown users alike.
C8_ValidationMutatesNothing ==
  \A u \in PathUserIds, src \in SourceInputs :
     LET out == AddItem(u, Undefined, src) IN out.res.status = 400 /\ SameDb(out)

ReportsNotFound(res) ==
  /\ res.status = 200
  /\ "message" \in DOMAIN res.body
  /\ res.body.message = Str("Item not found in wishlist")

\* C9: RemoveItem(U, s, src) on an existing user who does not hold (s, src)
\* reports "not found" (not the NotFound error) and leaves both indexes
\* unchanged.
C9_AbsentRemoveSoftMiss ==
  \A u \in PathUserIds \cap DOMAIN wishlist, s \in PathSkinIds, src \in SourceInputs :
     ~HasItem(wishlist, u, s, MatchedSource(src)) =>
        LET out == RemoveItem(u, s, src) IN ReportsNotFound(out.res) /\ SameDb(out)

\* the read handlers of the running program leave db as it is
ReadsKeepDb ==
  /\ \A u \in PathUserIds : SameDb(GetUser(u))
  /\ \A s \in PathSkinIds, k \in ApiKeyInputs, e \in Envs : SameDb(QueryBySkin(s, k, e))
  /\ \A f \in FilterInputs, k \in ApiKeyInputs, e \in Envs : SameDb(QueryAllActive(f, k, e))
  /\ IF program = "part_000"
     THEN /\ SameDb(GetHealth)
          /\ SameDb(GetStats)
          /\ \A r \in PathRegions, f \in FilterInputs, k \in ApiKeyInputs, e \in Envs :
                SameDb(GetTopicsByRegion(r, f, k, e))
     ELSE SameDb(SrvGetRoot) /\ SameDb(SrvGetHealth)

\* C10: GetUser, QueryBySkin, QueryAllActive, QueryByRegion and the health
\* query never change either index; GetUser on an unknown userId answers the
\* default view (EU, no items, no topics) and creates no user, so that
\* SetUserRegion and RemoveItem on that id still answer NotFound.
C10_ReadsReadOnly ==
  /\ ReadsKeepDb
  /\ \A u \in PathUserIds \ DOMAIN wishlist :
        LET out == GetUser(u)
        IN  /\ out.res = Response(200, [region |-> Str("EU"), items |-> <<>>,
                                        topics |-> <<>>])
            /\ u \notin DOMAIN out.wishlist
            /\ \A r \in RegionInputs : SetUserRegion(u, r).res.status = 404
            /\ \A s \in PathSkinIds, src \in SourceInputs :
                  RemoveItem(u, s, src).res.status = 404

\* reached: GetUser has answered the default view for an unknown id while
\* QueryBySkin answers the subscriptions of another user's item
C10_Witness ==
  \E u \in PathUserIds \ DOMAIN wishlist :
     /\ GetUser(u).res.body.items = <<>>
     /\ \E s \in PathSkinIds, e \in Envs :
           LET res == QueryBySkin(s, Str("k"), e).res
           IN  res.status = 200 /\ DOMAIN res.body.subscriptions # {}

----------------------------------------------------------------------------
(* C11..C20 *)

\* the region AddItem reads for u: the stored one, EU for a user it creates
RegionAtCall(u) == IF u \in DOMAIN wishlist THEN wishlist[u].region ELSE Str("EU")

\* C11: AddItem on an unknown userId creates the user with region EU holding
\* exactly the new item and inserts (userId, EU, S) under the skinId; every
\* successful AddItem returns Topic(R, S, skinId), R the user's region at the
\* call and S the normalized source, the region and source of the entry the
\* reverse index holds for the item.
C11_AddItemCreatesAndTopic ==
  \A u \in PathUserIds, s \in PathSkinIds, src \in SourceInputs :
     LET out == AddItem(u, s, src)
         S == normalizedSource(src)
         R == RegionAtCall(u)
     IN  out.res.status = 200 =>
           /\ out.res.body.topic = generateTopicName(R, S, s)
           /\ SubKey(u, R, S) \in Bucket(out.skinSubscriptions, s)
           /\ u \notin DOMAIN wishlist =>
                 /\ u \in DOMAIN out.wishlist
                 /\ out.wishlist[u] = [region |-> Str("EU"),
                                       items |-> <<[skinId |-> s, source |-> S]>>]
                 /\ SubKey(u, Str("EU"), S) \in Bucket(out.skinSubscriptions, s)

\* C12: in every reachable state the source of every stored item and the
\* source component of every reverse-index entry is one of store, night,
\* bundle; AddItem with an absent or unrecognized source stores the item and
\* its entry with source store.
C12_SourceNormalized ==
  /\ \A u \in DOMAIN wishlist :
        \A i \in 1..Len(wishlist[u].items) : wishlist[u].items[i].source \in validSources
  /\ \A skinId \in DOMAIN skinSubscriptions :
        \A key \in skinSubscriptions[skinId] :
           \E u \in PathUserIds, r \in regions, S \in validSources : key = SubKey(u, r, S)
  /\ \A u \in PathUserIds, s \in PathSkinIds, src \in SourceInputs \ validSources :
        LET out == AddItem(u, s, src)
        IN  out.res.status = 200 =>
              /\ HasItem(out.wishlist, u, s, Str("store"))
              /\ SubKey(u, RegionAtCall(u), Str("store")) \in Bucket(out.skinSubscriptions, s)

\* the region the store is to hold for each region a client may name
NamedRegions == RegionInputs \cup regions \cup {Str("eu"), Str("Tr")}
RegionFor(r) ==
  CASE r \in regions -> r
    [] r \in {Str("tr"), Str("Tr")} -> Str("TR")
    [] r = Str("eu") -> Str("EU")
    [] OTHER -> Str("EU")

\* C13: in every reachable state every user's region and the region of every
\* reverse-index entry is one of TR, EU, NA, AP, KR, BR, LATAM; RegisterUser
\* and SetUserRegion store the upper-case member for a region that matches
\* one whatever its case and EU for an absent or unmatched one, and
\* normalizing a normalized region returns it unchanged.
C13_RegionNormalized ==
  /\ \A u \in DOMAIN wishlist : wishlist[u].region \in regions
  /\ \A skinId \in DOMAIN skinSubscriptions :
        \A key \in skinSubscriptions[skinId] :
           \E u \in PathUserIds, r \in regions, S \in AllSources : key = SubKey(u, r, S)
  /\ \A r \in NamedRegions :
        /\ \A id \in generateAnonUserId :
              LET out == RegisterUser(r, id)
              IN  /\ out.res.body.region = RegionFor(r)
                  /\ out.wishlist[id].region = RegionFor(r)
        /\ \A u \in PathUserIds \cap DOMAIN wishlist :
              LET out == SetUserRegion(u, r)
              IN  /\ out.res = Response(200, [region |-> RegionFor(r)])
                  /\ out.wishlist[u].region = RegionFor(r)
        /\ normalizeRegion(normalizeRegion(r)) = normalizeRegion(r)
  /\ \A m \in regions : normalizeRegion(m) = m

\* reached: a user AddItem created (region EU), since moved to TR by
\* SetUserRegion, holds an item whose entry carries TR
C13_Witness ==
  \E u \in (PathUserIds \ generateAnonUserId) \cap DOMAIN wishlist :
     /\ wishlist[u].region = Str("TR")
     /\ wishlist[u].items # <<>>
     /\ \E s \in PathSkinIds : SubKey(u, Str("TR"), Str("store")) \in Bucket(skinSubscriptions, s)
     /\ SetUserRegion(u, Str("tr")).wishlist[u].region = Str("TR")

\* the responses of the worker routes of the running program to one request
WorkerResponses(apiKey, env) ==
  {QueryBySkin(s, apiKey, env).res : s \in PathSkinIds}
    \cup {QueryAllActive(f, apiKey, env).res : f \in FilterInputs}
    \cup (IF program = "part_000"
          THEN {GetTopicsByRegion(r, f, apiKey, env).res : r \in PathRegions, f \in FilterInputs}
          ELSE {})

\* C14: in a production deployment every worker query whose credential header
\* is absent or differs from the shared secret is answered Unauthorized with
\* no subscription data, whatever the secret is (unset included); in a
\* non-production deployment the worker queries answer whatever the header.
C14_WorkerCredential ==
  \A apiKey \in ApiKeyInputs, env \in Envs :
     \A res \in WorkerResponses(apiKey, env) :
        IF env.NODE_ENV = Str("production")
        THEN (apiKey = Undefined \/ apiKey # env.WORKER_API_KEY) =>
                res = Response(401, [error |-> Str("Unauthorized")])
        ELSE res.status = 200

\* the (user, region, source) tuples a stored key is the joining of
EntryTuples(key) ==
  {t \in PathUserIds \X regions \X AllSources : key = SubKey(t[1], t[2], t[3])}

\* the regions of the entries under skinId that the filter f lets through
MatchingRegions(skinId, f) ==
  {t[2] : t \in {x \in UNION {EntryTuples(key) : key \in skinSubscriptions[skinId]} :
                   Falsy(f) \/ x[3] = f}}

\* C15: QueryAllActive(f) returns one record for each skinId that has an entry
\* whose source is f (any entry when no filter is given) and for no other
\* skinId, and the record's regions are exactly the regions of those entries.
C15_QueryAllActive ==
  \A f \in FilterInputs, apiKey \in ApiKeyInputs, env \in Envs :
     LET res == QueryAllActive(f, apiKey, env).res
         active == {k \in DOMAIN skinSubscriptions : MatchingRegions(k, f) # {}}
     IN  res.status = 200 =>
           /\ DOMAIN res.body.skins = active
           /\ \A k \in active : res.body.skins[k] = MatchingRegions(k, f)
           /\ res.body.count = Cardinality(active)

\* the topics of the items users of region R hold, under the filter f
HeldTopics(R, f) ==
  UNION {{generateTopicName(R, it.source, it.skinId) :
             it \in {x \in ItemsOf(wishlist, u) : Falsy(f) \/ x.source = f}} :
         u \in {v \in DOMAIN wishlist : wishlist[v].region = R}}

\* the topics GetUser lists for the users of region R
ListedTopics(R) ==
  UNION {{GetUser(u).res.body.topics[i] : i \in 1..Len(GetUser(u).res.body.topics)} :
         u \in {v \in DOMAIN wishlist : wishlist[v].region = R}}

\* C16: QueryByRegion(r, f), with R the normalized r, returns exactly the
\* topics Topic(R, S, s) of the items (s, S) held by users whose region is R
\* (S = f under a filter): the union of what GetUser lists for those users,
\* and no topic of a user of another region.  (The route exists in
\* src/unnamed/part_000 only.)
C16_QueryByRegion ==
  program = "part_000" =>
    \A r \in PathRegions, f \in FilterInputs, apiKey \in ApiKeyInputs, env \in Envs :
       LET res == GetTopicsByRegion(r, f, apiKey, env).res
           R == normalizeRegion(r)
       IN  res.status = 200 =>
             /\ res.body.region = R
             /\ res.body.topics = HeldTopics(R, f)
             /\ Falsy(f) => res.body.topics = ListedTopics(R)

\* C17: a userId the forward index holds stays in it in every later state,
\* whatever operation follows (removing the user's last item and changing
\* region included), and the number of users never decreases.
C17_UsersNeverDeleted ==
  [][/\ DOMAIN wishlist \subseteq DOMAIN wishlist'
     /\ Cardinality(DOMAIN wishlist') >= Cardinality(DOMAIN wishlist)]_vars

\* reached: a user that AddItem created with an item is still there with no
\* item left and another region, next to a registered user
C17_Witness ==
  /\ \E u \in (PathUserIds \ generateAnonUserId) \cap DOMAIN wishlist :
        wishlist[u].items = <<>> /\ wishlist[u].region = Str("TR")
  /\ \E id \in generateAnonUserId : id \in DOMAIN wishlist

\* this step is the request AddItem(u, s, X), answered 200
AddItemStep(u, s, X) ==
  /\ AddItem(u, s, X).res.status = 200
  /\ wishlist' = AddItem(u, s, X).wishlist
  /\ skinSubscriptions' = AddItem(u, s, X).skinSubscriptions

\* RemoveItem(u, s, source) leaves the item (s, store) of u and its entry
KeepsStoreItem(u, s, source) ==
  LET out == RemoveItem(u, s, source)
  IN  /\ HasItem(out.wishlist, u, s, Str("store"))
      /\ SubKey(u, out.wishlist[u].region, Str("store")) \in Bucket(out.skinSubscriptions, s)

\* C18: RemoveItem matches its source argument as given (store when absent):
\* after AddItem(U, s, X) with X outside store, night, bundle, RemoveItem(U, s, X)
\* leaves the item, stored with source store, and its entry in place, and
\* RemoveItem(U, s) and RemoveItem(U, s, store) remove them.
C18_RemovalRawSource ==
  [][\A u \in PathUserIds, s \in PathSkinIds, X \in SourceInputs \ (validSources \cup {Undefined}) :
        AddItemStep(u, s, X) =>
           /\ KeepsStoreItem(u, s, X)'
           /\ ~HasItem(RemoveItem(u, s, Undefined).wishlist, u, s, Str("store"))'
           /\ ~HasItem(RemoveItem(u, s, Str("store")).wishlist, u, s, Str("store"))'
           /\ (SubKey(u, wishlist[u].region, Str("store"))
                 \notin Bucket(RemoveItem(u, s, Str("store")).skinSubscriptions, s))']_vars

\* C19: RegisterUser always succeeds and creates an empty record under a
\* userId the forward index did not hold (ids that AddItem created from a
\* path value included): it leaves every existing record as it was and no
\* entry of the reverse index without its item.
C19_RegisterUserFresh ==
  \A r \in RegionInputs, id \in generateAnonUserId :
     LET out == RegisterUser(r, id)
     IN  /\ out.res.status = 200
         /\ id \notin DOMAIN wishlist
         /\ out.wishlist[id] = [region |-> normalizeRegion(r), items |-> <<>>]
         /\ \A v \in DOMAIN wishlist : out.wishlist[v] = wishlist[v]
         /\ out.skinSubscriptions = skinSubscriptions
         /\ \A skinId \in DOMAIN out.skinSubscriptions :
               \A S \in AllSources, rr \in regions :
                  SubKey(id, rr, S) \notin out.skinSubscriptions[skinId]

\* key, under skinId, is the entry of an item a user other than U holds
LiveOther(key, skinId, U) ==
  \E t \in EntryTuples(key) :
     /\ t[1] # U
     /\ t[1] \in DOMAIN wishlist
     /\ wishlist[t[1]].region = t[2]
     /\ HasItem(wishlist, t[1], skinId, t[3])

\* out leaves the records of the users other than U as they were, keeps the
\* entries of their items, and adds or removes only keys that are entries of U
KeepsOthers(out, U) ==
  /\ DOMAIN out.wishlist \ {U} = DOMAIN wishlist \ {U}
  /\ \A v \in DOMAIN wishlist \ {U} : out.wishlist[v] = wishlist[v]
  /\ \A skinId \in DOMAIN skinSubscriptions \cup DOMAIN out.skinSubscriptions :
        LET before == Bucket(skinSubscriptions, skinId)
            after == Bucket(out.skinSubscriptions, skinId)
        IN  /\ \A key \in before : LiveOther(key, skinId, U) => key \in after
            /\ \A key \in (before \ after) \cup (after \ before) :
                  \E t \in EntryTuples(key) : t[1] = U

\* C20: AddItem, RemoveItem and SetUserRegion on user U leave every other
\* user's region and items, and every entry of another user (in buckets shared
\* with U too), as they were; RemoveItem leaves U's region and U's other items,
\* in their order; AddItem puts the new item after U's existing items.
C20_PerUserFrame ==
  \A U \in PathUserIds :
     /\ \A s \in BodySkinIds, src \in SourceInputs :
           LET out == AddItem(U, s, src)
               old == IF U \in DOMAIN wishlist THEN wishlist[U].items ELSE <<>>
           IN  out.res.status = 200 =>
                 /\ KeepsOthers(out, U)
                 /\ Len(out.wishlist[U].items) >= Len(old)
                 /\ SubSeq(out.wishlist[U].items, 1, Len(old)) = old
     /\ \A s \in PathSkinIds, src \in SourceInputs :
           LET out == RemoveItem(U, s, src)
           IN  out.res.status = 200 =>
                 /\ KeepsOthers(out, U)
                 /\ out.wishlist[U].region = wishlist[U].region
                 /\ out.wishlist[U].items =
                       SelectSeq(wishlist[U].items,
                                 LAMBDA it : it # [skinId |-> s, source |-> MatchedSource(src)])
     /\ \A r \in RegionInputs :
           LET out == SetUserRegion(U, r)
           IN  out.res.status = 200 =>
                 /\ KeepsOthers(out, U)
                 /\ out.wishlist[U].items = wishlist[U].items

====
